---- MODULE Spec2Model ----
(***************************************************************************)
(* hash_finder (src/main.rs): a dispatcher loop, running inside            *)
(* rayon::scope, spawns one process_hash task per integer 1, 2, 3, ...     *)
(* and polls an mpsc channel for (number, hash) pairs until it has printed *)
(* F of them.                                                              *)
(*                                                                         *)
(* Abstractions.                                                           *)
(*  - sha256::digest is a fixed but arbitrary function from decimal text   *)
(*    to hex text: the table sha256, chosen in Init among all tables over  *)
(*    digests of DigestLen characters of HexChars.                         *)
(*  - usize is scaled down to 0..MaxNumber: MaxNumber stands for           *)
(*    usize::MAX.  `current_number += 1` at usize::MAX panics in a build   *)
(*    with overflow checks (debug) and wraps to 0 in one without           *)
(*    (release); Init chooses the build.  Once the counter has wrapped the *)
(*    dispatcher keeps iterating, but the tasks it spawns from then on are *)
(*    not tracked and the counter is held at 0: those tasks stand for      *)
(*    candidates whose tasks send nothing.                                 *)
(*  - rayon: rayon::scope runs its closure ON a thread of the pool; tasks  *)
(*    spawned by it go to that thread's deque, from which the other pool   *)
(*    threads steal the oldest job; the closure's thread pops the newest   *)
(*    one, but only once the closure has returned.  The model scales       *)
(*    rayon::max_num_threads() (65535 on 64-bit targets) down to          *)
(*    MaxThreads.                                                          *)
(***************************************************************************)
EXTENDS Integers, Sequences, FiniteSets, TLC

\* ---------------------------------------------------------------- bounds
MaxNumber == 2
MaxNulls == 1
MaxHashes == 2
MaxThreads == 4
DigestLen == 2
MaxBatch == 3

VARIABLES
    nulls,               \* args.nulls (N)
    max_complete_tasks,  \* args.hashes (F)
    num_threads,         \* size of the rayon pool
    sha256,              \* the digest function, as a table
    overflow_checks,     \* the build panics on integer overflow
    pc,                  \* dispatcher: "loop", "recv", "done", "returned",
                         \* "panic" (unwinding), "aborted"
    current_number,
    complete_tasks,
    queue,               \* spawned jobs not yet taken by a pool thread
    running,             \* pool thread -> number it evaluates (0: none)
    chan,                \* the mpsc channel's queue of (number, hash)
    rx_alive,            \* the Receiver has not been dropped
    output,              \* the lines printed
    submitted,           \* history: numbers passed to scope.spawn, in order
    enqueued,            \* history: messages accepted by tx.send, in order
    evaluated,           \* history: numbers process_hash has been run on
    task_panicked,       \* a spawned task has panicked
    tpc,                 \* unit tests: "off", "call", "drain", "assert"
    batch,               \* unit tests: the numbers given to process_hash
    idx,                 \* unit tests: calls made so far
    result_qnt           \* unit tests: messages drained so far

vars == <<nulls, max_complete_tasks, num_threads, sha256, pc, current_number,
          complete_tasks, queue, running, chan, rx_alive, output, submitted,
          enqueued, tpc, batch, idx, result_qnt, overflow_checks, evaluated,
          task_panicked>>

config == <<nulls, max_complete_tasks, num_threads, sha256, overflow_checks>>
taskvars == <<evaluated, task_panicked>>
testvars == <<tpc, batch, idx, result_qnt>>

\* ------------------------------------------------------------- texts
HexChars == {"0", "a"}

Digests == [1..DigestLen -> HexChars]

Digit(d) == CASE d = 0 -> "0" [] d = 1 -> "1" [] d = 2 -> "2" [] d = 3 -> "3"
              [] d = 4 -> "4" [] d = 5 -> "5" [] d = 6 -> "6" [] d = 7 -> "7"
              [] d = 8 -> "8" [] d = 9 -> "9"

RECURSIVE to_string(_)
to_string(n) == IF n < 10 THEN <<Digit(n)>>
                ELSE Append(to_string(n \div 10), Digit(n % 10))

Numbers == 1..MaxNumber

Texts == {to_string(n) : n \in Numbers}

\* sha256::digest(number.to_string())
digest(number) == sha256[to_string(number)]

\* hash.chars().rev()
rev(s) == [i \in 1..Len(s) |-> s[Len(s) + 1 - i]]

\* Iterator::position(|i| i != '0'): Some(0-based index of the first
\* character that is not '0') or None; an Option is a set of at most one value
position(s) ==
    {i - 1 : i \in {k \in 1..Len(s) : s[k] # "0" /\ \A j \in 1..(k - 1) : s[j] = "0"}}

\* a candidate evaluated before is skipped
sends_unseen(number, n) ==
    /\ number \notin evaluated
    /\ \E index \in position(rev(digest(number))) : index >= n

\* the run of '0' characters must have exactly the asked length
sends_exact(number, n) == \E index \in position(rev(digest(number))) : index = n

\* the condition under which process_hash calls tx.send
sends(number, n) == \E index \in position(rev(digest(number))) : index >= n

\* Sender::send: the message is queued while the Receiver lives, and the
\* error of a send to a dropped Receiver is ignored (`_ =`)
send(q, alive, msg) == IF alive THEN Append(q, msg) ELSE q

\* the Result of Sender::send: Ok(()) exactly while the Receiver lives
send_ok(alive) == alive

\* `tx.send(..).unwrap()`: an Err panics
unwrap(ok) == ~ok

\* `_ = tx.send(..)`: the Result is dropped, an Err does not panic
discard(ok) == FALSE

\* fn process_hash(number, nulls, tx)
process_hash(number) ==
    LET hash == digest(number) IN
    /\ IF sends(number, nulls)
       THEN /\ chan' = send(chan, rx_alive, <<number, hash>>)
            /\ enqueued' = send(enqueued, rx_alive, <<number, hash>>)
            /\ task_panicked' = (task_panicked \/ discard(send_ok(rx_alive)))
       ELSE /\ chan' = chan
            /\ enqueued' = enqueued
            /\ task_panicked' = task_panicked
    /\ evaluated' = evaluated \cup {number}

\* ------------------------------------------------------------- rayon
max_num_threads == MaxThreads

\* rayon::current_num_threads(): the size of the pool the caller runs in
current_num_threads == num_threads

\* The closure of rayon::scope runs on pool thread 0; the others steal.
Thieves == 1..(num_threads - 1)

Threads == 0..(MaxThreads - 1)

\* ------------------------------------------------------------ main
Init ==
    /\ nulls \in 0..MaxNulls
    /\ max_complete_tasks \in 0..MaxHashes
    /\ num_threads \in 1..max_num_threads
    /\ sha256 \in [Texts -> Digests]
    /\ overflow_checks \in BOOLEAN
    /\ evaluated = {}
    /\ task_panicked = FALSE
    /\ pc = "loop"
    /\ current_number = 1
    /\ complete_tasks = 0
    /\ queue = <<>>
    /\ running = [t \in Threads |-> 0]
    /\ chan = <<>>
    /\ rx_alive = TRUE
    /\ output = <<>>
    /\ submitted = <<>>
    /\ enqueued = <<>>
    /\ tpc = "off"
    /\ batch = <<>>
    /\ idx = 0
    /\ result_qnt = 0

\* the loop runs once more than asked
LoopCond_le == complete_tasks <= max_complete_tasks

\* while complete_tasks < max_complete_tasks
LoopCond == complete_tasks < max_complete_tasks

\* if rayon::current_num_threads() < rayon::max_num_threads()
Throttle == current_num_threads < max_num_threads

\* usize::MAX
usize_max == MaxNumber

\* n + 1 does not fit in a usize
overflows(n) == n + 1 > usize_max

\* n + 1 in a build without overflow checks
wrapping_succ(n) == (n + 1) % (usize_max + 1)

\* scope.spawn(move |_| process_hash(current_number, nulls, tx)); current_number += 1
Submit ==
    /\ pc = "loop"
    /\ LoopCond
    /\ Throttle
    /\ IF current_number = 0
       THEN /\ pc' = "recv"
            /\ UNCHANGED <<queue, submitted, current_number, rx_alive>>
       ELSE /\ queue' = Append(queue, current_number)
            /\ submitted' = Append(submitted, current_number)
            /\ IF overflows(current_number) /\ overflow_checks
               THEN /\ pc' = "panic"
                    /\ rx_alive' = FALSE
                    /\ current_number' = current_number
               ELSE /\ pc' = "recv"
                    /\ rx_alive' = rx_alive
                    /\ current_number' = wrapping_succ(current_number)
    /\ UNCHANGED <<config, complete_tasks, running, chan, output, enqueued,
                   taskvars, testvars>>

\* else: std::thread::sleep(10 ms)
Pause ==
    /\ pc = "loop"
    /\ LoopCond
    /\ ~Throttle
    /\ pc' = "recv"
    /\ UNCHANGED <<config, current_number, complete_tasks, queue, running,
                   chan, rx_alive, output, submitted, enqueued, taskvars,
                   testvars>>

\* a LIFO channel
try_recv_newest(q) ==
    IF q = <<>> THEN {} ELSE {<<q[Len(q)], SubSeq(q, 1, Len(q) - 1)>>}

\* Receiver::try_recv: Ok(the oldest message), leaving the rest queued, or
\* Err(Empty); a Result is a set of at most one <<message, rest>>
try_recv(q) == IF q = <<>> THEN {} ELSE {<<Head(q), Tail(q)>>}

\* the match is printed but not counted
TryRecv_uncounted ==
    /\ pc = "recv"
    /\ IF try_recv(chan) # {}
       THEN \E r \in try_recv(chan) :
              /\ chan' = r[2]
              /\ output' = Append(output, r[1])
              /\ complete_tasks' = complete_tasks
       ELSE UNCHANGED <<chan, output, complete_tasks>>
    /\ pc' = "loop"
    /\ UNCHANGED <<config, current_number, queue, running, rx_alive,
                   submitted, enqueued, taskvars, testvars>>

\* every queued match is printed in one iteration
TryRecv_drain_all ==
    /\ pc = "recv"
    /\ chan' = <<>>
    /\ output' = output \o chan
    /\ complete_tasks' = complete_tasks + Len(chan)
    /\ pc' = "loop"
    /\ UNCHANGED <<config, current_number, queue, running, rx_alive,
                   submitted, enqueued, taskvars, testvars>>

\* if let Ok((number, hash)) = rx.try_recv() { println!; complete_tasks += 1 }
TryRecv ==
    /\ pc = "recv"
    /\ IF try_recv(chan) # {}
       THEN \E r \in try_recv(chan) :
              /\ chan' = r[2]
              /\ output' = Append(output, r[1])
              /\ complete_tasks' = complete_tasks + 1
       ELSE UNCHANGED <<chan, output, complete_tasks>>
    /\ pc' = "loop"
    /\ UNCHANGED <<config, current_number, queue, running, rx_alive,
                   submitted, enqueued, taskvars, testvars>>

\* The loop ends, the closure returns and drops tx and rx.
Exit ==
    /\ pc = "loop"
    /\ ~LoopCond
    /\ pc' = "done"
    /\ rx_alive' = FALSE
    /\ UNCHANGED <<config, current_number, complete_tasks, queue, running,
                   chan, output, submitted, enqueued, taskvars, testvars>>

\* thieves take the newest job
Steal_newest(t) ==
    /\ t \in Thieves
    /\ running[t] = 0
    /\ queue # <<>>
    /\ running' = [running EXCEPT ![t] = queue[Len(queue)]]
    /\ queue' = SubSeq(queue, 1, Len(queue) - 1)
    /\ UNCHANGED <<config, pc, current_number, complete_tasks, chan, rx_alive,
                   output, submitted, enqueued, taskvars, testvars>>

\* A pool thread other than the closure's steals the oldest spawned job.
Steal(t) ==
    /\ t \in Thieves
    /\ running[t] = 0
    /\ queue # <<>>
    /\ running' = [running EXCEPT ![t] = Head(queue)]
    /\ queue' = Tail(queue)
    /\ UNCHANGED <<config, pc, current_number, complete_tasks, chan, rx_alive,
                   output, submitted, enqueued, taskvars, testvars>>

\* The closure's thread, waiting for the scope to complete (after the closure
\* has returned or panicked), pops the newest job of its own deque.
Pop ==
    /\ pc \in {"done", "panic"}
    /\ running[0] = 0
    /\ queue # <<>>
    /\ running' = [running EXCEPT ![0] = queue[Len(queue)]]
    /\ queue' = SubSeq(queue, 1, Len(queue) - 1)
    /\ UNCHANGED <<config, pc, current_number, complete_tasks, chan, rx_alive,
                   output, submitted, enqueued, taskvars, testvars>>

\* the task counts its own match
Run_counts(t) ==
    /\ running[t] # 0
    /\ process_hash(running[t])
    /\ running' = [running EXCEPT ![t] = 0]
    /\ complete_tasks' = complete_tasks + 1
    /\ UNCHANGED <<config, pc, current_number, queue, rx_alive,
                   output, submitted, testvars>>

\* A pool thread runs the body of the spawned closure.
Run(t) ==
    /\ running[t] # 0
    /\ process_hash(running[t])
    /\ running' = [running EXCEPT ![t] = 0]
    /\ UNCHANGED <<config, pc, current_number, complete_tasks, queue, rx_alive,
                   output, submitted, testvars>>

\* the scope does not wait for its jobs
ScopeReturn_no_wait ==
    /\ pc = "done"
    /\ pc' = "returned"
    /\ UNCHANGED <<config, current_number, complete_tasks, queue, running,
                   chan, rx_alive, output, submitted, enqueued, taskvars,
                   testvars>>

\* rayon::scope returns once every spawned job has completed.
ScopeReturn ==
    /\ pc = "done"
    /\ queue = <<>>
    /\ \A t \in Threads : running[t] = 0
    /\ pc' = "returned"
    /\ UNCHANGED <<config, current_number, complete_tasks, queue, running,
                   chan, rx_alive, output, submitted, enqueued, taskvars,
                   testvars>>

\* rayon::scope resumes the closure's panic once every spawned job has
\* completed; main unwinds and the process fails.
ScopePanic ==
    /\ pc = "panic"
    /\ queue = <<>>
    /\ \A t \in Threads : running[t] = 0
    /\ pc' = "aborted"
    /\ UNCHANGED <<config, current_number, complete_tasks, queue, running,
                   chan, rx_alive, output, submitted, enqueued, taskvars,
                   testvars>>

Dispatcher == Submit \/ Pause \/ TryRecv \/ Exit \/ ScopeReturn \/ ScopePanic

Next ==
    \/ Submit
    \/ Pause
    \/ TryRecv
    \/ Exit
    \/ ScopeReturn
    \/ ScopePanic
    \/ Pop
    \/ \E t \in Threads : Steal(t)
    \/ \E t \in Threads : Run(t)

Spec == Init /\ [][Next]_vars

\* Every thread that can run does run: the dispatcher's thread never blocks
\* (its sleep is bounded) and rayon wakes its idle threads on a spawn.
Fairness ==
    /\ WF_vars(Dispatcher)
    /\ WF_vars(Pop)
    /\ \A t \in Threads : WF_vars(Steal(t)) /\ WF_vars(Run(t))

LiveSpec == Spec /\ Fairness

\* --------------------------------------------------------- unit tests
\* mod tests: process_hash is called for each number of a batch with clones
\* of one Sender, then the channel is drained with try_recv.
Batches == UNION {[1..n -> Numbers] : n \in 0..MaxBatch}

TestInit ==
    /\ nulls \in 0..MaxNulls
    /\ max_complete_tasks = 0
    /\ num_threads = 1
    /\ sha256 \in [Texts -> Digests]
    /\ overflow_checks = FALSE
    /\ evaluated = {}
    /\ task_panicked = FALSE
    /\ pc = "off"
    /\ current_number = 1
    /\ complete_tasks = 0
    /\ queue = <<>>
    /\ running = [t \in Threads |-> 0]
    /\ chan = <<>>
    /\ rx_alive = TRUE
    /\ output = <<>>
    /\ submitted = <<>>
    /\ enqueued = <<>>
    /\ batch \in Batches
    /\ tpc = IF batch = <<>> THEN "drain" ELSE "call"
    /\ idx = 0
    /\ result_qnt = 0

\* .for_each(|v| process_hash(v, nulls, tx.clone()))
TestCall ==
    /\ tpc = "call"
    /\ process_hash(batch[idx + 1])
    /\ idx' = idx + 1
    /\ tpc' = IF idx + 1 = Len(batch) THEN "drain" ELSE "call"
    /\ UNCHANGED <<config, pc, current_number, complete_tasks, queue, running,
                   rx_alive, output, submitted, batch, result_qnt>>

\* while let Ok(_) = rx.try_recv() { result_qnt += 1 }
TestDrain ==
    /\ tpc = "drain"
    /\ IF try_recv(chan) # {}
       THEN \E r \in try_recv(chan) :
              /\ chan' = r[2]
              /\ result_qnt' = result_qnt + 1
              /\ tpc' = "drain"
       ELSE /\ tpc' = "assert"
            /\ UNCHANGED <<chan, result_qnt>>
    /\ UNCHANGED <<config, pc, current_number, complete_tasks, queue, running,
                   rx_alive, output, submitted, enqueued, taskvars, batch, idx>>

TestNext == TestCall \/ TestDrain

TestSpec == TestInit /\ [][TestNext]_vars

\* ------------------------------------------------------------ claims
\* the length of the run of '0' characters that ends a text
RECURSIVE TrailingZeros(_)
TrailingZeros(s) ==
    IF s = <<>> THEN 0
    ELSE IF s[Len(s)] = "0" THEN 1 + TrailingZeros(SubSeq(s, 1, Len(s) - 1))
    ELSE 0

Qualifies(number) == TrailingZeros(digest(number)) >= nulls

LoopExited == pc \in {"done", "returned"}

InFlight == Len(queue) + Cardinality({t \in Threads : running[t] # 0})

IsPrefix(s, t) == Len(s) <= Len(t) /\ SubSeq(t, 1, Len(s)) = s

\* C1: the dispatcher never reports more than F matches, counts each one it
\* reports, does not leave its loop with fewer than F, and has reported
\* exactly F when the loop has ended.
C1_ExactlyF ==
    /\ complete_tasks = Len(output)
    /\ Len(output) <= max_complete_tasks
    /\ LoopExited => Len(output) = max_complete_tasks

C1_Witness ==
    /\ pc = "done"
    /\ max_complete_tasks = 2
    /\ Len(output) = 2

\* C2: the tasks in flight never outnumber the pool's threads, and a
\* candidate is submitted only when fewer tasks than threads are in flight.
C2_Throttled ==
    [][/\ InFlight' <= current_num_threads
       /\ Len(submitted') > Len(submitted) => InFlight < current_num_threads]_vars

\* C3: whatever the size of the pool, if at least F candidates are sent by
\* their tasks (and the counter's overflow does not panic), the loop
\* eventually ends with F matches reported.
C3_EventuallyExits ==
    (/\ Cardinality({c \in Numbers : sends(c, nulls)}) >= max_complete_tasks
     /\ ~overflow_checks)
        => <>(LoopExited /\ complete_tasks = max_complete_tasks)

\* C4: once complete_tasks equals F, no step submits a candidate.
C4_NoSubmitAfterF ==
    [][complete_tasks = max_complete_tasks
        => /\ submitted' = submitted
           /\ current_number' = current_number
           /\ Len(queue') <= Len(queue)]_vars

C4_Witness ==
    /\ pc = "done"
    /\ max_complete_tasks > 0
    /\ complete_tasks = max_complete_tasks
    /\ current_number # 0

\* C5: a call of process_hash appends (c, digest of c) to the channel when
\* the digest of c ends in N or more '0' characters, and leaves the channel
\* as it was otherwise.
C5_SendsIffTrailingZeros ==
    [][idx' = idx + 1 =>
        LET c == batch[idx'] IN
        chan' = IF Qualifies(c) THEN Append(chan, <<c, digest(c)>>) ELSE chan]_vars

\* C6: with N = 0 a call of process_hash appends (c, digest of c) to the
\* channel whatever the digest is.
C6_ZeroThresholdSendsAll ==
    [][(idx' = idx + 1 /\ nulls = 0) =>
        chan' = Append(chan, <<batch[idx'], digest(batch[idx'])>>)]_vars

\* C7: when the channel has been drained after the calls for a batch, the
\* number of messages drained is the number of elements of the batch whose
\* digest ends in N or more '0' characters.
C7_BatchCount ==
    tpc = "assert" =>
        result_qnt = Cardinality({i \in 1..Len(batch) : Qualifies(batch[i])})

\* C8: with F = 0 the loop body is never entered: nothing is submitted,
\* received or reported, and the dispatcher goes straight to its exit.
C8_ZeroTarget ==
    max_complete_tasks = 0 =>
        /\ pc # "recv"
        /\ current_number = 1
        /\ submitted = <<>>
        /\ InFlight = 0
        /\ chan = <<>>
        /\ enqueued = <<>>
        /\ output = <<>>
        /\ complete_tasks = 0

C8_Witness == max_complete_tasks = 0 /\ pc = "returned"

\* C9: the candidates submitted so far are 1, 2, ..., current_number - 1, in
\* that order, each once.
C9_SubmissionOrder ==
    /\ current_number >= 1
    /\ submitted = [i \in 1..(current_number - 1) |-> i]

\* C10: the matches reported are a prefix of the messages in the order the
\* tasks enqueued them, whatever the order of submission.
C10_ReportedInChannelOrder == IsPrefix(output, enqueued)

C10_Witness ==
    /\ Len(output) = 2
    /\ output[1][1] > output[2][1]

\* the numbers of a sequence of (number, hash) messages
NumbersOf(q) == {q[k][1] : k \in 1..Len(q)}

\* the numbers submitted so far
Submitted == {submitted[i] : i \in 1..Len(submitted)}

\* a step in which a pool thread finishes the task it was running
TaskStep == \E t \in Threads : running[t] # 0 /\ running'[t] = 0

\* C11: when rayon::scope has returned no task is in flight, and every
\* submitted candidate, hence every candidate from 1 to any reported one,
\* has been evaluated by process_hash.
C11_AllEvaluatedAtReturn ==
    pc = "returned" =>
        /\ InFlight = 0
        /\ \A i \in 1..Len(submitted) : submitted[i] \in evaluated
        /\ \A c \in NumbersOf(output) : \A d \in 1..c : d \in evaluated

C11_Witness ==
    /\ pc = "returned"
    /\ output # <<>>
    /\ Cardinality(evaluated) = 2

\* C12: no task ever panics, and once the Receiver has been dropped at the
\* end of the loop the output and complete_tasks never change again, whether
\* a late result's send fails or a result stays unread in the channel.
C12_LateResultsDiscarded ==
    [][/\ ~task_panicked'
       /\ ~rx_alive => /\ output' = output
                       /\ complete_tasks' = complete_tasks
                       /\ chan' = chan
                       /\ enqueued' = enqueued]_vars

C12_Witness ==
    /\ pc = "returned"
    /\ \E c \in evaluated : sends(c, nulls) /\ c \notin NumbersOf(enqueued)

\* C13: the step current_number += 1 never yields a value smaller than the
\* one before.
C13_CounterNeverWraps == [][current_number' >= current_number]_vars

C16_WorkerFrame ==
    [][TaskStep =>
        /\ current_number' = current_number
        /\ complete_tasks' = complete_tasks
        /\ output' = output
        /\ pc' = pc
        /\ \E t \in Threads :
             /\ running[t] # 0
             /\ running'[t] = 0
             /\ running[t] \in Submitted
             /\ \/ chan' = chan
                \/ chan' = Append(chan, <<running[t], digest(running[t])>>)]_vars

C16_Witness ==
    /\ Len(enqueued) = 2
    /\ enqueued[1][1] = 2
    /\ enqueued[2][1] = 1
    /\ output = <<>>

\* C17: a match can be reported while a smaller candidate that sends has
\* not been reported (the witness, with F = 1); this takes two pool threads
\* besides the dispatcher's: with fewer, every smaller candidate that sends
\* is reported first.
C17_OutOfOrderNeedsTwoThieves ==
    num_threads < 3 =>
        \A i \in 1..Len(output) : \A c \in 1..(output[i][1] - 1) :
            sends(c, nulls) => \E j \in 1..(i - 1) : output[j][1] = c

C17_Witness ==
    /\ max_complete_tasks = 1
    /\ pc = "done"
    /\ NumbersOf(output) = {2}
    /\ sends(1, nulls)

\* C18: while the loop runs, the matches reported together with the
\* messages queued are the candidates evaluated so far whose digest ends in N
\* or more '0' characters, each once with its digest.
C18_Conservation ==
    pc \in {"loop", "recv"} =>
        LET q == output \o chan IN
        /\ \A c \in evaluated : Qualifies(c) => c \in NumbersOf(q)
        /\ \A k \in 1..Len(q) :
             /\ q[k][1] \in evaluated
             /\ q[k][1] \in Submitted
             /\ Qualifies(q[k][1])
             /\ q[k][2] = digest(q[k][1])
        /\ \A k1, k2 \in 1..Len(q) : q[k1][1] = q[k2][1] => k1 = k2

\* C19: a candidate that is sent at threshold N is sent at every threshold
\* N' <= N.
C19_ThresholdMonotone ==
    /\ \A c \in NumbersOf(enqueued) : \A n \in 0..nulls : sends(c, n)
    /\ \A c \in Numbers : \A n \in 0..MaxNulls : \A m \in 0..n :
         sends(c, n) => sends(c, m)

C19_Witness ==
    /\ tpc = "assert"
    /\ nulls > 0
    /\ result_qnt > 0

====
